---- MODULE Spec2Model ----
(***************************************************************************)
(* A model of the catalog retriever (src/catalog_retriever/src):           *)
(*   - the text embedding pipeline: _create_text_chunks,                   *)
(*     _embed_chunks_in_batches, _reconstruct_embeddings, text_embeddings  *)
(*     and TextEmbeddings.embed_documents          (SpecText, SpecReconstruct) *)
(*   - Retriever.image_embeddings               (SpecImage, SpecNormalize) *)
(*   - Retriever.retrieve   (SpecRetrieve, SpecCancel, SpecImageQuery,     *)
(*                           SpecRank, SpecBlank, SpecScenario)            *)
(*   - Retriever.embeddings_exist and Retriever.milvus_from_csv, run at    *)
(*     every startup of the service                              (SpecCsv) *)
(* and of the chain server's retriever node with the two query endpoints   *)
(* (src/chain_server/src)                                      (SpecChain) *)
(* A Python None is the empty tuple; every vector is a non-empty tuple.    *)
(***************************************************************************)
EXTENDS Integers, Sequences, FiniteSets, TLC

VARIABLES
    \* ---- text embedding pipeline
    texts,                  \* the input list; a text is named by its chunk count
    all_chunks,             \* the flat chunk list of _create_text_chunks
    text_chunk_counts,      \* chunks per text
    batch_failed,           \* per batch already sent: did the endpoint call raise
    all_chunk_embeddings,   \* output of _embed_chunks_in_batches so far
    final_embeddings,       \* return value of text_embeddings
    doc_out,                \* return value of embed_documents
    txt_pc,                 \* position in embed_documents / text_embeddings
    \* ---- image_embeddings
    img_texts,              \* the input list of image references (their kinds)
    input_data,             \* input_data of every input normalised so far
    img_calls,              \* per finished batch: the endpoint call and its reply
    all_embeddings,         \* all_embeddings so far
    img_pc,                 \* position in image_embeddings
    norm_env,               \* what fetching and resizing the image last normalised came to
    \* ---- retrieve
    query,                  \* argument query: the list of text queries
    categories,             \* argument categories, set where retrieve first reads it
    image_bool,             \* argument image_bool: image mode
    k,                      \* argument k
    tasks,                  \* the similarity searches handed to asyncio.gather
    all_results,            \* all_results: the fused, deduplicated candidates
    result,                 \* the five lists retrieve returns
    ret_pc,                 \* position in retrieve
    \* ---- milvus_from_csv at startup
    text_col,               \* the text collection: entities stored per CSV row
    image_col,              \* the image collection: entities stored per CSV row
    startups,               \* startups of the service so far
    csv_pc,                 \* position of the service
    \* ---- chain server: a query that the planner routes to the retriever node
    endpoint,               \* "stream" (/query/stream) or "timing" (/query/timing)
    guardrails,             \* request.guardrails
    reply,                  \* what the POST to the catalog retriever came to
    state_response,         \* state.response
    chain_exc,              \* the exception that left a node, None without one
    delivered,              \* what the user has received, in order
    chain_pc                \* the node that runs next

txt_vars == <<texts, all_chunks, text_chunk_counts, batch_failed,
              all_chunk_embeddings, final_embeddings, doc_out, txt_pc>>

img_vars == <<img_texts, input_data, img_calls, all_embeddings, img_pc, norm_env>>

ret_vars == <<query, categories, image_bool, k, tasks, all_results, result, ret_pc>>

csv_vars == <<text_col, image_col, startups, csv_pc>>

chain_vars == <<endpoint, guardrails, reply, state_response, chain_exc, delivered,
                chain_pc>>

vars == <<txt_vars, img_vars, ret_vars, csv_vars, chain_vars>>

\* what the actions of one part leave alone
not_txt_vars == <<img_vars, ret_vars, csv_vars, chain_vars>>
not_img_vars == <<txt_vars, ret_vars, csv_vars, chain_vars>>
not_ret_vars == <<txt_vars, img_vars, csv_vars, chain_vars>>
not_csv_vars == <<txt_vars, img_vars, ret_vars, chain_vars>>
not_chain_vars == <<txt_vars, img_vars, ret_vars, csv_vars>>

----------------------------------------------------------------------------
(* Bounds of the model *)

MaxTexts == 2
MaxChunksPerText == 3
\* batch_size of the two batchers; the code's 32, scaled down so that several
\* batches occur within the bounds above
BatchSize == 2
MaxImages == 3
MaxQueries == 2
MaxK == 2
\* candidates the searches of one retrieve call return in total
MaxPool == 2
\* rows of the catalogue CSV
MaxRows == 2
\* startups of the service that are followed
MaxStartups == 3

----------------------------------------------------------------------------
(* Helpers *)

None == <<>>

Min(a, b) == IF a < b THEN a ELSE b

RECURSIVE SumSeq(_)
SumSeq(s) == IF s = <<>> THEN 0 ELSE Head(s) + SumSeq(Tail(s))

RECURSIVE Flatten(_)
Flatten(ss) == IF ss = <<>> THEN <<>> ELSE Head(ss) \o Flatten(Tail(ss))

\* Python's s[a:b] with 0-based a, b (clamped to the list), as a 1-based sequence
Slice(s, a, b) == SubSeq(s, a + 1, Min(b, Len(s)))

NotNoneAll(s) == s

\* [x for x in s if x is not None]
RECURSIVE NotNone(_)
NotNone(s) ==
    IF s = <<>> THEN <<>>
    ELSE IF Head(s) # None THEN <<Head(s)>> \o NotNone(Tail(s))
         ELSE NotNone(Tail(s))

SeqsUpTo(S, n) == UNION {[1..m -> S] : m \in 0..n}

----------------------------------------------------------------------------
(* The text embedding endpoint: a vector per string, in order.  Chunk c is  *)
(* the c-th chunk of the call; its vector has Dim coordinates, multiples   *)
(* of 12 so that the means of up to four vectors are exact.                *)

Dim == 2

Embedding(c) == [d \in 1..Dim |-> IF d = 1 THEN 12 * c ELSE 12 * ((c + d) % 3)]

\* numpy.mean(vs, axis=0) of a non-empty list of vectors
RECURSIVE VecSum(_)
VecSum(vs) ==
    IF Len(vs) = 1 THEN Head(vs)
    ELSE [d \in 1..Dim |-> Head(vs)[d] + VecSum(Tail(vs))[d]]

mean(vs) == [d \in 1..Dim |-> VecSum(vs)[d] \div Len(vs)]

\* r / numpy.linalg.norm(r): the unit vector of r, kept symbolic
Normed(r) == <<"unit", r>>

----------------------------------------------------------------------------
(* Retriever._create_text_chunks: the splitter cuts text i into texts[i]   *)
(* chunks; the chunks of the call are numbered 1, 2, ... in order.         *)

create_text_chunks(ts) ==
    [chunks |-> [c \in 1..SumSeq(ts) |-> c], counts |-> ts]

(* Retriever._embed_chunks_in_batches, one iteration of its loop.          *)

BatchChunks(chunks, i) == Slice(chunks, i, i + BatchSize)

\* the try branch: response.data holds one embedding per chunk sent
BatchSuccessBad(batch_chunks) == [j \in 1..Len(batch_chunks) |-> Embedding(batch_chunks[1])]
BatchSuccess(batch_chunks) == [j \in 1..Len(batch_chunks) |-> Embedding(batch_chunks[j])]

\* "except Exception": does what the endpoint call raised leave the loop
BatchEscapesBad(raises) == raises
BatchEscapes(raises) == FALSE

\* the except branch: [None for _ in batch_chunks]
BatchFailureBad(batch_chunks) == <<>>
BatchFailure(batch_chunks) == [j \in 1..Len(batch_chunks) |-> None]

(* Retriever._reconstruct_embeddings *)

ChunkStartBad(counts, i) == SumSeq(SubSeq(counts, 1, i - 1)) + 1
\* current_chunk_idx when text i is reached (0-based)
ChunkStart(counts, i) == SumSeq(SubSeq(counts, 1, i - 1))

AverageBad(chunk_embeddings) ==
    IF \E j \in 1..Len(chunk_embeddings) : chunk_embeddings[j] = None
    THEN None ELSE mean(chunk_embeddings)
Average(chunk_embeddings) ==
    LET valid_chunk_embeddings == NotNone(chunk_embeddings)
    IN  IF valid_chunk_embeddings # <<>> THEN mean(valid_chunk_embeddings) ELSE None

reconstruct_embeddings(ts, embs, counts) ==
    [i \in 1..Len(ts) |->
        IF counts[i] = 0 THEN None
        ELSE Average(Slice(embs, ChunkStart(counts, i), ChunkStart(counts, i) + counts[i]))]

(* TextEmbeddings.embed_documents, after text_embeddings returned res:     *)
(* [list(r / norm(r) for r in res)], which raises on a None element.       *)

embed_documents_raises(res) == \E i \in 1..Len(res) : res[i] = None

embed_documents_value(res) == << [i \in 1..Len(res) |-> Normed(res[i])] >>

----------------------------------------------------------------------------
(* The part of the state a specification does not use stays as follows.    *)

TxtIdle ==
    /\ texts = <<>>
    /\ all_chunks = <<>>
    /\ text_chunk_counts = <<>>
    /\ batch_failed = <<>>
    /\ all_chunk_embeddings = <<>>
    /\ final_embeddings = <<>>
    /\ doc_out = <<>>
    /\ txt_pc = "idle"

ImgIdle ==
    /\ img_texts = <<>>
    /\ input_data = <<>>
    /\ img_calls = <<>>
    /\ all_embeddings = <<>>
    /\ img_pc = "idle"
    /\ norm_env = None

NoResult == [texts |-> <<>>, ids |-> <<>>, sims |-> <<>>, names |-> <<>>, images |-> <<>>]

RetIdle ==
    /\ query = <<>>
    /\ categories = <<>>
    /\ image_bool = FALSE
    /\ k = 0
    /\ tasks = <<>>
    /\ all_results = <<>>
    /\ result = NoResult
    /\ ret_pc = "idle"

CsvRows == 1..MaxRows

\* a collection without entities
EmptyCollection == [r \in CsvRows |-> 0]

CsvIdle ==
    /\ text_col = EmptyCollection
    /\ image_col = EmptyCollection
    /\ startups = 0
    /\ csv_pc = "idle"

ChainIdle ==
    /\ endpoint = "none"
    /\ guardrails = FALSE
    /\ reply = "none"
    /\ state_response = ""
    /\ chain_exc = None
    /\ delivered = <<>>
    /\ chain_pc = "idle"

----------------------------------------------------------------------------
(* Actions of the text pipeline *)

TxtInit ==
    /\ texts \in SeqsUpTo(0..MaxChunksPerText, MaxTexts)
    /\ all_chunks = <<>>
    /\ text_chunk_counts = <<>>
    /\ batch_failed = <<>>
    /\ all_chunk_embeddings = <<>>
    /\ final_embeddings = <<>>
    /\ doc_out = <<>>
    /\ txt_pc = "call"
    /\ ImgIdle
    /\ RetIdle
    /\ CsvIdle
    /\ ChainIdle

\* text_embeddings up to the call of _embed_chunks_in_batches
TextEmbeddingsStart ==
    /\ txt_pc = "call"
    /\ LET made == create_text_chunks(texts)
       IN  IF texts = <<>>
           THEN /\ final_embeddings' = <<>>
                /\ txt_pc' = "returned"
                /\ UNCHANGED <<all_chunks, text_chunk_counts>>
           ELSE /\ all_chunks' = made.chunks
                /\ text_chunk_counts' = made.counts
                /\ IF made.chunks = <<>>
                   THEN /\ final_embeddings' = [i \in 1..Len(texts) |-> None]
                        /\ txt_pc' = "returned"
                   ELSE /\ final_embeddings' = final_embeddings
                        /\ txt_pc' = "batches"
    /\ UNCHANGED <<texts, batch_failed, all_chunk_embeddings, doc_out>>
    /\ UNCHANGED not_txt_vars

\* one iteration of the loop of _embed_chunks_in_batches; the endpoint call
\* of the batch either returns or raises
EmbedBatch ==
    /\ txt_pc = "batches"
    /\ Len(batch_failed) * BatchSize < Len(all_chunks)
    /\ LET batch_chunks == BatchChunks(all_chunks, Len(batch_failed) * BatchSize)
       IN  \E raises \in BOOLEAN :
              IF BatchEscapes(raises)
              THEN /\ txt_pc' = "raised"
                   /\ UNCHANGED <<batch_failed, all_chunk_embeddings>>
              ELSE /\ batch_failed' = Append(batch_failed, raises)
                   /\ all_chunk_embeddings' = all_chunk_embeddings \o
                         (IF raises THEN BatchFailure(batch_chunks)
                                    ELSE BatchSuccess(batch_chunks))
                   /\ txt_pc' = txt_pc
    /\ UNCHANGED <<texts, all_chunks, text_chunk_counts, final_embeddings, doc_out>>
    /\ UNCHANGED not_txt_vars

\* the loop is over: _reconstruct_embeddings, and text_embeddings returns
Reconstruct ==
    /\ txt_pc = "batches"
    /\ Len(batch_failed) * BatchSize >= Len(all_chunks)
    /\ final_embeddings' =
          reconstruct_embeddings(texts, all_chunk_embeddings, text_chunk_counts)
    /\ txt_pc' = "returned"
    /\ UNCHANGED <<texts, all_chunks, text_chunk_counts, batch_failed,
                   all_chunk_embeddings, doc_out>>
    /\ UNCHANGED not_txt_vars

\* embed_documents normalises what text_embeddings returned
EmbedDocumentsReturn ==
    /\ txt_pc = "returned"
    /\ IF embed_documents_raises(final_embeddings)
       THEN /\ txt_pc' = "raised"
            /\ doc_out' = doc_out
       ELSE /\ txt_pc' = "done"
            /\ doc_out' = embed_documents_value(final_embeddings)
    /\ UNCHANGED <<texts, all_chunks, text_chunk_counts, batch_failed,
                   all_chunk_embeddings, final_embeddings>>
    /\ UNCHANGED not_txt_vars

TxtNext ==
    \/ TextEmbeddingsStart
    \/ EmbedBatch
    \/ Reconstruct
    \/ EmbedDocumentsReturn

SpecText == TxtInit /\ [][TxtNext]_vars

----------------------------------------------------------------------------
(* _reconstruct_embeddings on its own: any counts, any pattern of absent   *)
(* chunk embeddings.                                                       *)

RecInit ==
    /\ texts \in SeqsUpTo(0..MaxChunksPerText, MaxTexts)
    /\ all_chunks = create_text_chunks(texts).chunks
    /\ text_chunk_counts = create_text_chunks(texts).counts
    /\ batch_failed = <<>>
    /\ \E present \in SUBSET (1..SumSeq(texts)) :
          all_chunk_embeddings =
             [c \in 1..SumSeq(texts) |-> IF c \in present THEN Embedding(c) ELSE None]
    /\ final_embeddings = <<>>
    /\ doc_out = <<>>
    /\ txt_pc = "reconstruct"
    /\ ImgIdle
    /\ RetIdle
    /\ CsvIdle
    /\ ChainIdle

ReconstructCall ==
    /\ txt_pc = "reconstruct"
    /\ final_embeddings' =
          reconstruct_embeddings(texts, all_chunk_embeddings, text_chunk_counts)
    /\ txt_pc' = "reconstructed"
    /\ UNCHANGED <<texts, all_chunks, text_chunk_counts, batch_failed,
                   all_chunk_embeddings, doc_out>>
    /\ UNCHANGED not_txt_vars

RecNext == ReconstructCall

SpecReconstruct == RecInit /\ [][RecNext]_vars

----------------------------------------------------------------------------
(* Claims on the text pipeline *)

BatchLoopOver ==
    /\ txt_pc \in {"batches", "returned", "done", "raised"}
    /\ all_chunks # <<>>
    /\ Len(batch_failed) * BatchSize >= Len(all_chunks)

BatchOf(c) == ((c - 1) \div BatchSize) + 1

\* C2: whichever batch calls of _embed_chunks_in_batches fail, no exception
\* leaves the loop, the output has one entry per chunk in input order, every
\* chunk of a failed batch has None and every chunk of a batch that succeeded
\* has its own vector.
C2_BatchFailureIsolated ==
    /\ txt_pc = "raised" => Len(final_embeddings) = Len(texts)
    /\ txt_pc = "batches" =>
          Len(all_chunk_embeddings) = Min(Len(batch_failed) * BatchSize, Len(all_chunks))
    /\ BatchLoopOver =>
          /\ Len(all_chunk_embeddings) = Len(all_chunks)
          /\ \A c \in 1..Len(all_chunks) :
                all_chunk_embeddings[c] =
                   IF batch_failed[BatchOf(c)] THEN None ELSE Embedding(all_chunks[c])

C2_Witness ==
    /\ BatchLoopOver
    /\ Len(batch_failed) >= 2
    /\ \E a, b \in 1..Len(batch_failed) : batch_failed[a] /\ ~batch_failed[b]
    /\ Len(all_chunks) % BatchSize # 0

RECURSIVE SumOver(_, _, _)
SumOver(S, f, d) ==
    IF S = {} THEN 0
    ELSE LET c == CHOOSE x \in S : TRUE
         IN  f[c][d] + SumOver(S \ {c}, f, d)

\* the non-absent chunk embeddings that belong to text i
OwnValid(i) ==
    LET start == SumSeq(SubSeq(text_chunk_counts, 1, i - 1))
    IN  {c \in (start + 1)..(start + text_chunk_counts[i]) :
            all_chunk_embeddings[c] # None}

\* C3: _reconstruct_embeddings returns one entry per text; entry i is the
\* coordinate-wise mean of the non-absent vectors among the chunk embeddings
\* of text i, and None exactly when text i has no chunk or none of its chunk
\* embeddings is present.
C3_ReconstructIsMeanOfOwnChunks ==
    txt_pc = "reconstructed" =>
        /\ Len(final_embeddings) = Len(texts)
        /\ \A i \in 1..Len(texts) :
              /\ final_embeddings[i] = None <=> OwnValid(i) = {}
              /\ OwnValid(i) # {} =>
                    \A d \in 1..Dim :
                        final_embeddings[i][d] * Cardinality(OwnValid(i)) =
                            SumOver(OwnValid(i), all_chunk_embeddings, d)

\* the case [v1, None, v3] of a text that is not the first one
C3_Witness ==
    /\ txt_pc = "reconstructed"
    /\ Len(texts) = 2
    /\ text_chunk_counts = <<1, 3>>
    /\ all_chunk_embeddings = <<Embedding(1), Embedding(2), None, Embedding(4)>>
    /\ final_embeddings[2][1] = 36
    /\ final_embeddings[2][2] = 6

\* C4: embed_documents returns a sequence as long as texts whose i-th element
\* is the (normalised) embedding of texts[i], a failed element being None in
\* its own slot.
C4_EmbedDocumentsOnePerText ==
    txt_pc \in {"done", "raised"} =>
        /\ txt_pc = "done"
        /\ Len(doc_out) = Len(texts)
        /\ \A i \in 1..Len(texts) :
              doc_out[i] = IF final_embeddings[i] = None THEN None
                           ELSE Normed(final_embeddings[i])

\* the same for a call in which every text was embedded
C4_EmbedDocumentsAllEmbedded ==
    txt_pc = "done" /\ Len(texts) = 2 => Len(doc_out) = 2

----------------------------------------------------------------------------
(* Retriever.image_embeddings.  An image reference is named by its kind:   *)
(* a URL, a path, an inline payload, or a value that is no string (the NaN *)
(* of an empty CSV cell).  A payload is <<input index, length>>.           *)

RefKinds == {"url", "path", "inline", "nan"}

MAX_VARCHAR_LENGTH == 65535
max_b64_length == 65535

Lengths == {100, MAX_VARCHAR_LENGTH, MAX_VARCHAR_LENGTH + 1}

\* what the outside world does to the normalisation of one image: the fetch
\* or read fails or gives an encoded length, the resize fails or gives one
NormEnvs == [err : BOOLEAN, len : Lengths, rerr : BOOLEAN, rlen : Lengths]

Raised == <<"raised">>

\* utils.image_url_to_base64: every error is caught and gives None
image_url_to_base64(src, env) ==
    IF env.err THEN None
    ELSE IF env.len > max_b64_length THEN None
    ELSE <<src, env.len>>

\* utils.image_path_to_base64: an error of open() or of the decoder goes up
image_path_to_base64(src, env) ==
    IF env.err THEN Raised
    ELSE IF env.len > max_b64_length THEN None
    ELSE <<src, env.len>>

\* utils.resize_base64_image
resize_base64_image(data, env) ==
    IF env.rerr THEN None ELSE <<data[1], env.rlen>>

\* the body of the try of the normalisation loop: Raised when it raises
NormalizeBody(src, kind, env) ==
    LET first == CASE kind = "nan"    -> Raised     \* is_url(text): TypeError
                   [] kind = "url"    -> image_url_to_base64(src, env)
                   [] kind = "path"   -> image_path_to_base64(src, env)
                   [] kind = "inline" -> <<src, env.len>>
    IN  IF first = Raised THEN Raised
        ELSE IF first = None THEN Raised            \* len(None): TypeError
        ELSE IF first[2] > MAX_VARCHAR_LENGTH
             THEN LET resized == resize_base64_image(first, env)
                  IN  IF resized # None /\ resized[2] <= MAX_VARCHAR_LENGTH
                      THEN resized ELSE None
             ELSE first

\* "except Exception" of the two try blocks: does the exception leave the call
ImageEscapesBad(raised) == raised
ImageEscapes(raised) == FALSE

\* the reply of the image endpoint for batch b: n vectors, in order
ImageResponse(b, n) == [m \in 1..n |-> <<"vec", b, m>>]

\* the reconstruction loop: next(batch_embeddings) for every payload that is
\* not None, None once the iterator is exhausted
RECURSIVE ReconstructBatchBad(_, _)
ReconstructBatchBad(input_data_list, batch_embeddings) ==
    IF input_data_list = <<>> THEN <<>>
    ELSE IF Head(input_data_list) # None
         THEN IF batch_embeddings # <<>>
              THEN <<Head(batch_embeddings)>> \o
                   ReconstructBatchBad(Tail(input_data_list), Tail(batch_embeddings))
              ELSE <<None>> \o ReconstructBatchBad(Tail(input_data_list), <<>>)
         ELSE ReconstructBatchBad(Tail(input_data_list), batch_embeddings)

RECURSIVE ReconstructBatch(_, _)
ReconstructBatch(input_data_list, batch_embeddings) ==
    IF input_data_list = <<>> THEN <<>>
    ELSE IF Head(input_data_list) # None
         THEN IF batch_embeddings # <<>>
              THEN <<Head(batch_embeddings)>> \o
                   ReconstructBatch(Tail(input_data_list), Tail(batch_embeddings))
              ELSE <<None>> \o ReconstructBatch(Tail(input_data_list), <<>>)
         ELSE <<None>> \o ReconstructBatch(Tail(input_data_list), batch_embeddings)

\* the loop variable i (0-based) of the batch in progress, and its end
ImgBatchStart == Len(img_calls) * BatchSize
ImgBatchEnd == Min(ImgBatchStart + BatchSize, Len(img_texts))

ImgInit ==
    /\ TxtIdle
    /\ RetIdle
    /\ CsvIdle
    /\ ChainIdle
    /\ img_texts \in SeqsUpTo(RefKinds, MaxImages)
    /\ input_data = <<>>
    /\ img_calls = <<>>
    /\ all_embeddings = <<>>
    /\ img_pc = "loop"
    /\ norm_env = None

\* one iteration of the normalisation loop of the batch in progress
ImgNormalize ==
    /\ img_pc = "loop"
    /\ Len(input_data) < ImgBatchEnd
    /\ LET src == Len(input_data) + 1
       IN  \E env \in NormEnvs :
              LET got == NormalizeBody(src, img_texts[src], env)
              IN  IF ImageEscapes(got = Raised)
                  THEN /\ img_pc' = "raised"
                       /\ input_data' = input_data
                  ELSE /\ img_pc' = img_pc
                       /\ input_data' =
                             Append(input_data, IF got = Raised THEN None ELSE got)
    /\ UNCHANGED <<img_texts, img_calls, all_embeddings, norm_env>>
    /\ UNCHANGED not_img_vars

\* the batch is normalised: the endpoint call on valid_inputs (none when there
\* is no valid input) and the reconstruction of the batch
ImgEmbedBatch ==
    /\ img_pc = "loop"
    /\ ImgBatchStart < Len(img_texts)
    /\ Len(input_data) = ImgBatchEnd
    /\ LET input_data_list == SubSeq(input_data, ImgBatchStart + 1, ImgBatchEnd)
           valid_inputs == NotNone(input_data_list)
           b == Len(img_calls) + 1
       IN  \E raises \in BOOLEAN, n \in 0..(Len(valid_inputs) + 1) :
              /\ valid_inputs = <<>> => ~raises /\ n = 0
              /\ raises => n = 0
              /\ LET batch_embeddings == ImageResponse(b, n)
                 IN  IF ImageEscapes(raises)
                     THEN /\ img_pc' = "raised"
                          /\ UNCHANGED <<img_calls, all_embeddings>>
                     ELSE /\ img_pc' = img_pc
                          /\ img_calls' = Append(img_calls,
                                [sent |-> valid_inputs, raised |-> raises,
                                 data |-> batch_embeddings])
                          /\ all_embeddings' = all_embeddings \o
                                ReconstructBatch(input_data_list, batch_embeddings)
    /\ UNCHANGED <<img_texts, input_data, norm_env>>
    /\ UNCHANGED not_img_vars

\* the batch loop is over: return all_embeddings
ImgReturn ==
    /\ img_pc = "loop"
    /\ ImgBatchStart >= Len(img_texts)
    /\ img_pc' = "done"
    /\ UNCHANGED <<img_texts, input_data, img_calls, all_embeddings, norm_env>>
    /\ UNCHANGED not_img_vars

ImgNext ==
    \/ ImgNormalize
    \/ ImgEmbedBatch
    \/ ImgReturn

SpecImage == ImgInit /\ [][ImgNext]_vars

\* The normalisation of one reference on its own: the body of the loop over
\* batch_texts for a single image, with what the outside world answered
\* (the fetch or read, the resize) kept in norm_env.
NormInit ==
    /\ TxtIdle
    /\ RetIdle
    /\ CsvIdle
    /\ ChainIdle
    /\ img_texts \in [1..1 -> RefKinds]
    /\ input_data = <<>>
    /\ img_calls = <<>>
    /\ all_embeddings = <<>>
    /\ img_pc = "loop"
    /\ norm_env = None

NormalizeOne ==
    /\ img_pc = "loop"
    /\ input_data = <<>>
    /\ \E env \in NormEnvs :
          LET got == NormalizeBody(1, img_texts[1], env)
          IN  /\ norm_env' = env
              /\ IF ImageEscapes(got = Raised)
                 THEN /\ img_pc' = "raised"
                      /\ input_data' = input_data
                 ELSE /\ img_pc' = img_pc
                      /\ input_data' = <<IF got = Raised THEN None ELSE got>>
    /\ UNCHANGED <<img_texts, img_calls, all_embeddings>>
    /\ UNCHANGED not_img_vars

SpecNormalize == NormInit /\ [][NormalizeOne]_vars

----------------------------------------------------------------------------
(* Claims on image_embeddings *)

\* how many inputs of the batch of input i, up to i, were normalised
ValidRank(i) ==
    Cardinality({j \in (((i - 1) \div BatchSize) * BatchSize + 1)..i :
                    input_data[j] # None})

\* C1: whatever normalisations fail, whatever batch calls fail and however
\* short the replies are, image_embeddings does not raise and returns one
\* entry per input: None where the input was not normalised or the call of
\* its batch failed, and otherwise the vector the reply holds at the rank of
\* the input among the normalised inputs of its batch (None past its end).
C1_ImageEmbeddingsOnePerInput ==
    /\ img_pc # "raised"
    /\ img_pc = "loop" => Len(all_embeddings) = Min(ImgBatchStart, Len(img_texts))
    /\ img_pc = "done" =>
          /\ Len(all_embeddings) = Len(img_texts)
          /\ \A i \in 1..Len(img_texts) :
                LET call == img_calls[BatchOf(i)]
                IN  all_embeddings[i] =
                       IF input_data[i] = None \/ call.raised THEN None
                       ELSE IF ValidRank(i) <= Len(call.data)
                            THEN call.data[ValidRank(i)] ELSE None

\* two batches: a failed normalisation before a normalised input that gets its
\* vector, a short reply, and a batch whose call failed
C1_Witness ==
    /\ img_pc = "done"
    /\ Len(img_texts) = 3
    /\ input_data[1] = None /\ input_data[2] # None /\ input_data[3] # None
    /\ all_embeddings[2] # None
    /\ img_calls[2].raised
    /\ all_embeddings[3] = None

C1_WitnessShortReply ==
    /\ img_pc = "done"
    /\ \E b \in 1..Len(img_calls) :
          /\ ~img_calls[b].raised
          /\ Len(img_calls[b].data) < Len(img_calls[b].sent)

\* the reference was fetched or read (an inline payload needs neither) and
\* its encoded form is longer than 65,535
Oversized ==
    /\ input_data # <<>>
    /\ img_texts[1] \in {"url", "path", "inline"}
    /\ img_texts[1] = "inline" \/ ~norm_env.err
    /\ norm_env.len > 65535

\* C26: for a URL, a path and an inline payload alike, an encoded image longer
\* than 65,535 gets one resize pass: the resized payload is the outcome when
\* the resize worked and fits, and the outcome is None otherwise.
C26_OneResizePass ==
    Oversized =>
       input_data[1] = IF ~norm_env.rerr /\ norm_env.rlen <= 65535
                       THEN <<1, norm_env.rlen>> ELSE None

\* the same statement for the inline payload alone
C26_InlineOnly ==
    Oversized /\ img_texts[1] = "inline" =>
       input_data[1] = IF ~norm_env.rerr /\ norm_env.rlen <= 65535
                       THEN <<1, norm_env.rlen>> ELSE None

\* the inputs of batch b, as indices of img_texts
BatchInputs(b) ==
    ((b - 1) * BatchSize + 1)..Min(b * BatchSize, Len(img_texts))

\* C25: the call of a batch gets exactly the normalised payloads of the batch
\* in input order, none of them absent and none longer than 65,535; the m-th
\* vector of the reply sits at the m-th normalised input of the batch, and a
\* normalised input past the end of the reply gets None.
C25_OnlyNormalizedPayloadsSent ==
    \A b \in 1..Len(img_calls) :
       LET call == img_calls[b]
           valid == {i \in BatchInputs(b) : input_data[i] # None}
       IN  /\ Len(call.sent) = Cardinality(valid)
           /\ \A m \in 1..Len(call.sent) :
                 /\ call.sent[m] # None
                 /\ call.sent[m][2] <= 65535
           /\ \A i \in valid :
                 /\ call.sent[ValidRank(i)] = input_data[i]
                 /\ ValidRank(i) <= Len(call.data) =>
                       all_embeddings[i] = call.data[ValidRank(i)]
                 /\ ValidRank(i) > Len(call.data) => all_embeddings[i] = None

\* a batch whose first input failed to normalise and whose second was sent
\* alone and got the first vector, then a batch whose reply came back empty
C25_Witness ==
    /\ img_pc = "done"
    /\ Len(img_texts) = 3
    /\ input_data[1] = None /\ input_data[2] # None /\ input_data[3] # None
    /\ Len(img_calls[1].sent) = 1
    /\ Len(img_calls[1].data) >= 1
    /\ all_embeddings[2] = img_calls[1].data[1]
    /\ ~img_calls[2].raised
    /\ img_calls[2].data = <<>>
    /\ all_embeddings[3] = None

----------------------------------------------------------------------------
(* Retriever.retrieve.  A string whose characters matter is a tuple of     *)
(* one-character strings ("NL" is the newline); a similarity is the cosine *)
(* similarity times 100.                                                   *)

Whitespace == {" ", "NL"}

\* does sub occur in s at position i (1-based)
OccursAt(s, sub, i) ==
    /\ i + Len(sub) - 1 <= Len(s)
    /\ \A j \in 1..Len(sub) : s[i + j - 1] = sub[j]

\* str.find, 1-based, 0 when sub does not occur
RECURSIVE FindFrom(_, _, _)
FindFrom(s, sub, i) ==
    IF i + Len(sub) - 1 > Len(s) THEN 0
    ELSE IF OccursAt(s, sub, i) THEN i
    ELSE FindFrom(s, sub, i + 1)

Find(s, sub) == FindFrom(s, sub, 1)

\* sub in s
IsIn(sub, s) == Find(s, sub) # 0

\* s.split(sep), sep not empty
RECURSIVE Split(_, _)
Split(s, sep) ==
    LET i == Find(s, sep)
    IN  IF i = 0 THEN <<s>>
        ELSE <<SubSeq(s, 1, i - 1)>> \o Split(SubSeq(s, i + Len(sep), Len(s)), sep)

\* s.strip()
RECURSIVE Strip(_)
Strip(s) ==
    IF s = <<>> THEN s
    ELSE IF Head(s) \in Whitespace THEN Strip(Tail(s))
    ELSE IF s[Len(s)] \in Whitespace THEN Strip(SubSeq(s, 1, Len(s) - 1))
    ELSE s

LowerChar(c) ==
    CASE c = "B" -> "b" [] c = "S" -> "s" [] c = "P" -> "p" [] c = "R" -> "r"
      [] c = "I" -> "i" [] c = "C" -> "c" [] c = "E" -> "e" [] OTHER -> c

\* s.lower()
Lower(s) == [i \in 1..Len(s) |-> LowerChar(s[i])]

StartsWith(s, pre) == OccursAt(s, pre, 1)

PRICE == <<"P", "R", "I", "C", "E", ":">>

\* the records of the collections with their metadata; pk 0: metadata.get("pk")
\* is None
Docs == 1..3

Catalog == <<
    [pk |-> 1, name |-> "tote bag", price |-> <<"9">>, image |-> "/images/1.jpg",
     page_content |-> <<"n", " ", "|", " ", "d", " ", "|", " ",
                        "B", "a", "g", ",", "t", "o", "t", "e">>],
    [pk |-> 2, name |-> "boot", price |-> <<"7">>, image |-> "/images/2.jpg",
     page_content |-> <<"m", " ", "|", " ", "e", " ", "|", " ",
                        "s", "h", "o", "e", ",", "b", "o", "o", "t">>],
    [pk |-> 0, name |-> "shoe", price |-> <<"5">>, image |-> "/images/3.jpg",
     page_content |-> <<"m", " ", "|", " ", "f", " ", "|", " ",
                        "s", "h", "o", "e", ",", "b", "o", "o", "t">>],
    \* a payload without separator, and one whose last segment is a path
    [pk |-> 4, name |-> "sneaker", price |-> <<"8">>, image |-> "/images/4.jpg",
     page_content |-> <<"s", "h", "o", "e">>],
    [pk |-> 5, name |-> "poster", price |-> <<"3">>, image |-> "/images/5.jpg",
     page_content |-> <<"p", " ", "|", " ", "q", " ", "|", " ", "/", "i">>],
    \* three more shoes
    [pk |-> 6, name |-> "loafer", price |-> <<"6">>, image |-> "/images/6.jpg",
     page_content |-> <<"l", " ", "|", " ", "g", " ", "|", " ",
                        "s", "h", "o", "e", "s", ",", "l", "o", "w">>],
    [pk |-> 7, name |-> "clog", price |-> <<"4">>, image |-> "/images/7.jpg",
     page_content |-> <<"c", " ", "|", " ", "g", " ", "|", " ",
                        "s", "h", "o", "e", "s", ",", "l", "o", "w">>],
    [pk |-> 8, name |-> "pump", price |-> <<"2">>, image |-> "/images/8.jpg",
     page_content |-> <<"u", " ", "|", " ", "g", " ", "|", " ",
                        "s", "h", "o", "e", "s", ",", "l", "o", "w">>] >>

\* config.sim_threshold
sim_threshold == 75

Scores == {75, 80, 90}

\* a (Document, score) tuple of a search result
Candidates == [doc : Docs, score : Scores]

\* the category lists of the callers
CategoryLists ==
    { <<>>,
      << <<"b", "a", "g">> >>,
      << <<" ", "S", "h", "o", "e", "s">>, <<"t", "o", "t", "e">> >> }

Placeholder == <<"Can you find me something like this image?", 0>>
QueryText(i) == <<"query", i>>

\* sorted(xs, key=score, reverse=True): stable
InsertDesc(x, acc) ==
    LET p == Cardinality({i \in 1..Len(acc) : acc[i].score >= x.score})
    IN  SubSeq(acc, 1, p) \o <<x>> \o SubSeq(acc, p + 1, Len(acc))

RECURSIVE SortInto(_, _)
SortInto(xs, acc) ==
    IF xs = <<>> THEN acc ELSE SortInto(Tail(xs), InsertDesc(Head(xs), acc))

SortDesc(xs) == SortInto(xs, <<>>)

\* the interleaving loop over active_iterators
RECURSIVE InterleaveFromLast(_)
InterleaveFromLast(active_iterators) ==
    IF active_iterators = <<>> THEN <<>>
    ELSE LET n == Len(active_iterators)
             current_it == active_iterators[n]
         IN  IF current_it = <<>> THEN InterleaveFromLast(SubSeq(active_iterators, 1, n - 1))
             ELSE <<Head(current_it)>> \o
                  InterleaveFromLast(<<Tail(current_it)>> \o
                                     SubSeq(active_iterators, 1, n - 1))

InterleaveConcat(active_iterators) == Flatten(active_iterators)

RECURSIVE Interleave(_)
Interleave(active_iterators) ==
    IF active_iterators = <<>> THEN <<>>
    ELSE LET current_it == Head(active_iterators)
         IN  IF current_it = <<>> THEN Interleave(Tail(active_iterators))
             ELSE <<Head(current_it)>> \o
                  Interleave(Tail(active_iterators) \o <<Tail(current_it)>>)

FusePoolUnsorted(unformatted_results, img) ==
    LET sorted_unformatted_results ==
            [i \in 1..Len(unformatted_results) |-> SortDesc(unformatted_results[i])]
    IN  IF img THEN Flatten(sorted_unformatted_results)
        ELSE Interleave(sorted_unformatted_results)

\* lines 493-524: sort every list, then pool and sort (image mode) or
\* interleave (text-only mode)
Fuse(unformatted_results, img) ==
    LET sorted_unformatted_results ==
            [i \in 1..Len(unformatted_results) |-> SortDesc(unformatted_results[i])]
    IN  IF img THEN SortDesc(Flatten(sorted_unformatted_results))
        ELSE Interleave(sorted_unformatted_results)

\* the deduplication loop, seen_ids being the ids kept so far
DedupFromKeepAll(interleaved_results, seen_ids) ==
    SelectSeq(interleaved_results, LAMBDA res : Catalog[res.doc].pk # 0)

RECURSIVE DedupFromLast(_, _)
DedupFromLast(interleaved_results, seen_ids) ==
    IF interleaved_results = <<>> THEN <<>>
    ELSE LET res == Head(interleaved_results)
             id_ == Catalog[res.doc].pk
             later == \E q \in 2..Len(interleaved_results) :
                          Catalog[interleaved_results[q].doc].pk = id_
         IN  IF id_ # 0 /\ ~later
             THEN <<res>> \o DedupFromLast(Tail(interleaved_results), seen_ids)
             ELSE DedupFromLast(Tail(interleaved_results), seen_ids)

RECURSIVE DedupFromRepeats(_, _)
DedupFromRepeats(interleaved_results, seen_ids) ==
    IF interleaved_results = <<>> THEN <<>>
    ELSE LET res == Head(interleaved_results)
             id_ == Catalog[res.doc].pk
         IN  IF id_ # 0 /\ id_ \notin seen_ids
             THEN DedupFromRepeats(Tail(interleaved_results), seen_ids \cup {id_})
             ELSE IF id_ # 0
             THEN <<res>> \o DedupFromRepeats(Tail(interleaved_results), seen_ids)
             ELSE DedupFromRepeats(Tail(interleaved_results), seen_ids)

RECURSIVE DedupFrom(_, _)
DedupFrom(interleaved_results, seen_ids) ==
    IF interleaved_results = <<>> THEN <<>>
    ELSE LET res == Head(interleaved_results)
             id_ == Catalog[res.doc].pk
         IN  IF id_ # 0 /\ id_ \notin seen_ids
             THEN <<res>> \o DedupFrom(Tail(interleaved_results), seen_ids \cup {id_})
             ELSE DedupFrom(Tail(interleaved_results), seen_ids)

Deduplicate(interleaved_results) == DedupFrom(interleaved_results, {})

\* lines 543-547: the five fields of a candidate
Row(res) ==
    [score |-> res.score,
     text  |-> Catalog[res.doc].page_content \o <<"NL">> \o PRICE \o <<" ">> \o
               Catalog[res.doc].price,
     id    |-> Catalog[res.doc].pk,
     name  |-> Catalog[res.doc].name,
     image |-> Catalog[res.doc].image]

\* x[:n]
Take(xs, n) == SubSeq(xs, 1, Min(n, Len(xs)))

RECURSIVE SelectSeq2(_, _)
SelectSeq2(xs, keep) ==
    IF xs = <<>> THEN <<>>
    ELSE IF keep[1] THEN <<Head(xs)>> \o SelectSeq2(Tail(xs), Tail(keep))
         ELSE SelectSeq2(Tail(xs), Tail(keep))

\* the comparison of lines 550-554 for a configured threshold thr
ExceedsBelow(sim, thr) == sim < thr
Exceeds(sim, thr) == sim > thr

\* sim > self.sim_threshold
AboveThresholdBad(sim) == sim >= sim_threshold
AboveThreshold(sim) == Exceeds(sim, sim_threshold)

\* lines 549-554: the first kk entries, those above the threshold
ThresholdTopKBad(rows, kk) ==
    SelectSeq2(rows, [i \in 1..Len(rows) |-> AboveThreshold(rows[i].score)])
ThresholdTopK(rows, kk) ==
    LET top == Take(rows, kk)
    IN  SelectSeq2(top, [i \in 1..Len(top) |-> AboveThreshold(top[i].score)])

\* lines 556-571: sort by similarity, highest first, and cut to kk
ResortBad(rows, kk) == Take(rows, kk)
Resort(rows, kk) == Take(SortDesc(rows), kk)

\* lines 578-598: the category tokens of a text payload
NonEmptyTokens(parts) ==
    SelectSeq2(parts, [i \in 1..Len(parts) |->
        LET cleaned == Lower(Strip(parts[i]))
        IN  cleaned # <<>> /\ ~StartsWith(cleaned, <<"/">>)])

ParseCategories(text) ==
    LET segments == Split(text, <<"|">>)
        last == Strip(segments[Len(segments)])
        category_part == IF IsIn(PRICE, last) THEN Strip(Split(last, PRICE)[1]) ELSE last
        kept == NonEmptyTokens(Split(category_part, <<",">>))
    IN  [i \in 1..Len(kept) |-> Lower(Strip(kept[i]))]

\* lines 625-634: does a user category match a product category
MatchFoundOneWay(cats_in, cats) ==
    \E u \in 1..Len(cats_in) : \E c \in 1..Len(cats) :
        IsIn(Strip(Lower(cats_in[u])), cats[c])

MatchFound(cats_in, cats) ==
    \E u \in 1..Len(cats_in) : \E c \in 1..Len(cats) :
        LET user_cat_lower == Strip(Lower(cats_in[u]))
            prod_cat == cats[c]
        IN  IsIn(user_cat_lower, prod_cat) \/ IsIn(prod_cat, user_cat_lower)

\* lines 603-647: the category stage
CategoryStageUnfiltered(rows, img, cats_in) ==
    IF img \/ cats_in = <<>> THEN rows
    ELSE SelectSeq2(rows, [i \in 1..Len(rows) |->
            MatchFound(cats_in, ParseCategories(rows[i].text))])

CategoryStageAlways(rows, img, cats_in) ==
    IF cats_in = <<>> THEN <<>>
    ELSE SelectSeq2(rows, [i \in 1..Len(rows) |->
            MatchFound(cats_in, ParseCategories(rows[i].text))])

CategoryStage(rows, img, cats_in) ==
    IF img THEN rows
    ELSE IF cats_in = <<>> THEN <<>>
    ELSE SelectSeq2(rows, [i \in 1..Len(rows) |->
            MatchFound(cats_in, ParseCategories(rows[i].text))])

FiveListsIdsReversed(rows) ==
    [texts  |-> [i \in 1..Len(rows) |-> rows[i].text],
     ids    |-> [i \in 1..Len(rows) |-> rows[Len(rows) + 1 - i].id],
     sims   |-> [i \in 1..Len(rows) |-> rows[i].score],
     names  |-> [i \in 1..Len(rows) |-> rows[i].name],
     images |-> [i \in 1..Len(rows) |-> rows[i].image]]

\* the five lists returned
FiveLists(rows) ==
    [texts  |-> [i \in 1..Len(rows) |-> rows[i].text],
     ids    |-> [i \in 1..Len(rows) |-> rows[i].id],
     sims   |-> [i \in 1..Len(rows) |-> rows[i].score],
     names  |-> [i \in 1..Len(rows) |-> rows[i].name],
     images |-> [i \in 1..Len(rows) |-> rows[i].image]]

\* lines 543-571: from all_results to the rows before the category stage
Ranked(results, kk) ==
    LET rows == [i \in 1..Len(results) |-> Row(results[i])]
    IN  Resort(ThresholdTopK(rows, kk), kk)

\* retrieve from all_results on
Finish(results, kk, img, cats_in) ==
    FiveLists(CategoryStage(Ranked(results, kk), img, cats_in))

\* values of config.sim_threshold
Thresholds == {70, 75, 90}

\* retrieve from all_results on, of a Retriever configured with threshold thr
FinishAt(results, kk, img, cats_in, thr) ==
    LET rows == [i \in 1..Len(results) |-> Row(results[i])]
        top == Take(rows, kk)
        kept == SelectSeq2(top, [i \in 1..Len(top) |-> Exceeds(top[i].score, thr)])
    IN  FiveLists(CategoryStage(Resort(kept, kk), img, cats_in))

\* lines 457-460
LocalQueriesBad(q) == q
LocalQueries(q) == IF q = <<>> THEN <<Placeholder>> ELSE q

Task(coll, q, n) == [coll |-> coll, q |-> q, k |-> n, status |-> "running", hits |-> <<>>]

ImageQuery == <<"image", 0>>

\* lines 462-491: the searches handed to asyncio.gather, in argument order
DispatchTasks(q, kk, img) ==
    LET local_queries == LocalQueries(q)
    IN  IF img
        THEN [i \in 1..Len(local_queries) |-> Task("text", local_queries[i], kk)]
             \o <<Task("image", ImageQuery, kk * Len(q))>>
        ELSE [i \in 1..Len(local_queries) |->
                 Task("text", local_queries[i], kk * Len(q))]

\* asyncio.gather without return_exceptions: it returns once every search has
\* returned, and raises as soon as one has raised
GatherReturnsBad(ts) == \A i \in 1..Len(ts) : ts[i].status # "running"
GatherReturns(ts) == \A i \in 1..Len(ts) : ts[i].status = "done"

GatherRaises(ts) == \E i \in 1..Len(ts) : ts[i].status = "failed"

PoolSize(ts) == SumSeq([i \in 1..Len(ts) |-> Len(ts[i].hits)])

RetInit ==
    /\ TxtIdle
    /\ ImgIdle
    /\ CsvIdle
    /\ ChainIdle
    /\ query \in {[i \in 1..n |-> QueryText(i)] : n \in 0..MaxQueries}
    /\ categories = <<>>
    /\ image_bool \in BOOLEAN
    /\ k \in 1..MaxK
    /\ tasks = <<>>
    /\ all_results = <<>>
    /\ result = NoResult
    /\ ret_pc = "call"

\* retrieve up to the await of asyncio.gather
Dispatch ==
    /\ ret_pc = "call"
    /\ tasks' = DispatchTasks(query, k, image_bool)
    /\ ret_pc' = "searching"
    /\ UNCHANGED <<query, categories, image_bool, k, all_results, result>>
    /\ UNCHANGED not_ret_vars

\* a similarity search returns at most the number of candidates asked for; the
\* thread of a search runs on when gather has raised or was cancelled
SearchCompleteFrom(i, found) ==
    /\ ret_pc \in {"searching", "raised", "cancelled"}
    /\ tasks[i].status = "running"
    /\ \E hits \in SeqsUpTo(found, Min(tasks[i].k, MaxPool - PoolSize(tasks))) :
          tasks' = [tasks EXCEPT ![i].status = "done", ![i].hits = hits]
    /\ UNCHANGED <<query, categories, image_bool, k, all_results, result, ret_pc>>
    /\ UNCHANGED not_ret_vars

SearchComplete(i) == SearchCompleteFrom(i, Candidates)

SearchFail(i) ==
    /\ ret_pc \in {"searching", "raised", "cancelled"}
    /\ tasks[i].status = "running"
    /\ tasks' = [tasks EXCEPT ![i].status = "failed"]
    /\ UNCHANGED <<query, categories, image_bool, k, all_results, result, ret_pc>>
    /\ UNCHANGED not_ret_vars

\* the await raises the exception of the search that failed
GatherRaise ==
    /\ ret_pc = "searching"
    /\ GatherRaises(tasks)
    /\ ret_pc' = "raised"
    /\ UNCHANGED <<query, categories, image_bool, k, tasks, all_results, result>>
    /\ UNCHANGED not_ret_vars

\* the await returns: lines 493-647 run to the return.  The argument
\* categories, which nothing before line 601 reads, is drawn here.
RetrieveFinishWith(lists) ==
    /\ ret_pc = "searching"
    /\ GatherReturns(tasks)
    /\ LET unformatted_results == [i \in 1..Len(tasks) |-> tasks[i].hits]
           deduplicated == Deduplicate(Fuse(unformatted_results, image_bool))
           ranked == Ranked(deduplicated, k)
       IN  \E cats_in \in lists :
              /\ categories' = cats_in
              /\ all_results' = deduplicated
              /\ result' = FiveLists(CategoryStage(ranked, image_bool, cats_in))
    /\ ret_pc' = "returned"
    /\ UNCHANGED <<query, image_bool, k, tasks>>
    /\ UNCHANGED not_ret_vars

RetrieveFinish == RetrieveFinishWith(CategoryLists)

RetNext ==
    \/ Dispatch
    \/ \E i \in 1..Len(tasks) : SearchComplete(i)
    \/ \E i \in 1..Len(tasks) : SearchFail(i)
    \/ GatherRaise
    \/ RetrieveFinish

SpecRetrieve == RetInit /\ [][RetNext]_vars

\* the call is cancelled at the await of asyncio.gather (lines 481, 491): gather
\* cancels the tasks that wrap asyncio.to_thread; a search still queued in the
\* executor (those of not_started) is cancelled with its future, the thread of
\* a search that has started cannot be
Cancel ==
    /\ ret_pc = "searching"
    /\ \E not_started \in SUBSET {i \in 1..Len(tasks) : tasks[i].status = "running"} :
          tasks' = [i \in 1..Len(tasks) |->
                       IF i \in not_started
                       THEN [tasks[i] EXCEPT !.status = "cancelled"]
                       ELSE tasks[i]]
    /\ ret_pc' = "cancelled"
    /\ UNCHANGED <<query, categories, image_bool, k, all_results, result>>
    /\ UNCHANGED not_ret_vars

CancelNext == RetNext \/ Cancel

SpecCancel == RetInit /\ [][CancelNext]_vars

\* Image mode with the image search spelled out: the vector store embeds the
\* query image with ImageEmbeddings.embed_query before it searches.

\* lines 70-79: the entry of the one image, ValueError when it is None
embed_queryNoRaise(embeddings) ==
    IF embeddings # <<>> THEN embeddings[1] ELSE Raised

embed_query(embeddings) ==
    IF embeddings # <<>> /\ embeddings[1] # None THEN embeddings[1] ELSE Raised

ImageQueryKinds == {"url", "path", "inline"}

\* what the searches of this part find
ImageQueryCandidates == [doc : {1, 2}, score : {90}]

ImageQueryInit ==
    /\ TxtIdle
    /\ CsvIdle
    /\ ChainIdle
    /\ img_texts \in [1..1 -> ImageQueryKinds]
    /\ input_data = <<>>
    /\ img_calls = <<>>
    /\ all_embeddings = <<>>
    /\ img_pc = "idle"
    /\ norm_env = None
    /\ query \in {[i \in 1..n |-> QueryText(i)] : n \in 0..MaxQueries}
    /\ categories = <<>>
    /\ image_bool = TRUE
    /\ k \in 1..MaxK
    /\ tasks = <<>>
    /\ all_results = <<>>
    /\ result = NoResult
    /\ ret_pc = "call"

\* the thread of the image search (line 479): embed_query calls
\* image_embeddings on the one image, and the search runs on its vector
ImageSearch ==
    /\ ret_pc \in {"searching", "raised", "cancelled"}
    /\ image_bool
    /\ tasks[Len(tasks)].status = "running"
    /\ LET i == Len(tasks)
       IN  \E env \in NormEnvs, raises \in BOOLEAN, n \in 0..2 :
              LET got == NormalizeBody(1, img_texts[1], env)
                  input_data_list == <<IF got = Raised THEN None ELSE got>>
                  valid_inputs == NotNone(input_data_list)
                  batch_embeddings == ImageResponse(1, n)
                  embeddings == ReconstructBatch(input_data_list, batch_embeddings)
              IN  /\ n <= Len(valid_inputs) + 1
                  /\ valid_inputs = <<>> => ~raises /\ n = 0
                  /\ raises => n = 0
                  /\ input_data' = input_data_list
                  /\ img_calls' = <<[sent |-> valid_inputs, raised |-> raises,
                                     data |-> batch_embeddings]>>
                  /\ all_embeddings' = embeddings
                  /\ img_pc' = "done"
                  /\ IF embed_query(embeddings) = Raised
                     THEN tasks' = [tasks EXCEPT ![i].status = "failed"]
                     ELSE \/ tasks' = [tasks EXCEPT ![i].status = "failed"]
                          \/ \E hits \in SeqsUpTo(ImageQueryCandidates,
                                    Min(tasks[i].k, MaxPool - PoolSize(tasks))) :
                                tasks' = [tasks EXCEPT ![i].status = "done",
                                                       ![i].hits = hits]
    /\ UNCHANGED <<img_texts, norm_env>>
    /\ UNCHANGED <<query, categories, image_bool, k, all_results, result, ret_pc>>
    /\ UNCHANGED <<txt_vars, csv_vars, chain_vars>>

ImageQueryNext ==
    \/ Dispatch
    \/ \E i \in 1..(Len(tasks) - 1) : SearchCompleteFrom(i, ImageQueryCandidates)
    \/ \E i \in 1..(Len(tasks) - 1) : SearchFail(i)
    \/ ImageSearch
    \/ GatherRaise
    \/ RetrieveFinishWith({<<>>})

SpecImageQuery == ImageQueryInit /\ [][ImageQueryNext]_vars

\* retrieve at the await of asyncio.gather with every search returned: the
\* lines 493-647 as a function of the lists the searches returned
RankDocs == {2, 4, 5}
RankScores == {75, 90}
RankCandidates == [doc : RankDocs, score : RankScores]

\* the first lens[i] candidates after those of the searches before i
HitsOf(flat, lens, i) ==
    LET off == SumSeq([j \in 1..(i - 1) |-> lens[j]])
    IN  SubSeq(flat, off + 1, off + lens[i])

RankInit ==
    /\ TxtIdle
    /\ ImgIdle
    /\ CsvIdle
    /\ ChainIdle
    /\ query \in {[i \in 1..n |-> QueryText(i)] : n \in 0..MaxQueries}
    /\ categories = <<>>
    /\ image_bool \in BOOLEAN
    /\ k \in 1..MaxK
    /\ LET ts == DispatchTasks(query, k, image_bool)
       IN  \E lens \in [1..Len(ts) -> 0..MaxPool] :
              /\ SumSeq(lens) <= MaxPool
              /\ \A i \in 1..Len(ts) : lens[i] <= ts[i].k
              /\ \E flat \in [1..SumSeq(lens) -> RankCandidates] :
                    tasks = [i \in 1..Len(ts) |->
                                [ts[i] EXCEPT !.status = "done",
                                              !.hits = HitsOf(flat, lens, i)]]
    /\ all_results = <<>>
    /\ result = NoResult
    /\ ret_pc = "searching"

SpecRank == RankInit /\ [][RetrieveFinish]_vars

\* category lists with blank terms: the three defaults the chain server sends
\* when the category tool call names no category (chain_server retriever.py
\* lines 226-230), a term of one space, and a blank term beside a real one
BlankCategoryLists ==
    { << <<>>, <<>>, <<>> >>,
      << <<" ">> >>,
      << <<>>, <<"b", "a", "g">> >> }

BlankFinish == RetrieveFinishWith(BlankCategoryLists)

SpecBlank == RankInit /\ [][BlankFinish]_vars

\* retrieve on two text queries, each search returning some of two shoes
\* k: int = 4 of the request bodies
DefaultK == 4

ScenarioLists ==
    << <<[doc |-> 2, score |-> 90], [doc |-> 6, score |-> 80]>>,
       <<[doc |-> 7, score |-> 85], [doc |-> 8, score |-> 70]>> >>

ScenarioCategoryLists ==
    { <<>>, << <<"s", "h", "o", "e", "s">> >>, << <<"b", "a", "g">> >> }

\* the lists without repetition over the candidates of xs
Arrangements(xs) ==
    {ys \in SeqsUpTo({xs[i] : i \in 1..Len(xs)}, Len(xs)) :
        \A i, j \in 1..Len(ys) : i # j => ys[i] # ys[j]}

ScenarioInit ==
    /\ TxtIdle
    /\ ImgIdle
    /\ CsvIdle
    /\ ChainIdle
    /\ query = <<QueryText(1), QueryText(2)>>
    /\ categories = <<>>
    /\ image_bool = FALSE
    /\ k \in 1..DefaultK
    /\ \E h1 \in Arrangements(ScenarioLists[1]) : \E h2 \in Arrangements(ScenarioLists[2]) :
          LET ts == DispatchTasks(query, k, image_bool)
          IN  tasks = <<[ts[1] EXCEPT !.status = "done", !.hits = h1],
                        [ts[2] EXCEPT !.status = "done", !.hits = h2]>>
    /\ all_results = <<>>
    /\ result = NoResult
    /\ ret_pc = "searching"

ScenarioFinish == RetrieveFinishWith(ScenarioCategoryLists)

SpecScenario == ScenarioInit /\ [][ScenarioFinish]_vars

----------------------------------------------------------------------------
(* embeddings_exist and milvus_from_csv, called at every startup (main.py)  *)

\* col.num_entities
NumEntities(col) == SumSeq([r \in CsvRows |-> col[r]])

\* lines 146-168: True only when both counts are positive; an exception of the
\* count check is caught and gives False
embeddings_exist(check_raises) ==
    IF check_raises THEN FALSE
    ELSE LET text_count == NumEntities(text_col)
             image_count == NumEntities(image_col)
         IN  text_count > 0 /\ image_count > 0

\* add_embeddings with auto_id: one new entity for every row handed over
AddEmbeddings(col, rows) == [r \in CsvRows |-> IF r \in rows THEN col[r] + 1 ELSE col[r]]

\* a fresh database
CsvInit ==
    /\ TxtIdle
    /\ ImgIdle
    /\ RetIdle
    /\ ChainIdle
    /\ text_col = EmptyCollection
    /\ image_col = EmptyCollection
    /\ startups = 0
    /\ csv_pc = "stopped"

\* main.py lines 81-83: the service starts and calls milvus_from_csv
Startup ==
    /\ csv_pc \in {"stopped", "ready", "crashed"}
    /\ startups < MaxStartups
    /\ startups' = startups + 1
    /\ csv_pc' = "populating"
    /\ UNCHANGED <<text_col, image_col>>
    /\ UNCHANGED not_csv_vars

\* milvus_from_csv: check_raises, the count check raises; csv_read, read_csv
\* succeeds (else df is unbound at line 402); text_ok and image_ok, the rows
\* whose text and image embedding is not None
MilvusFromCsv ==
    /\ csv_pc = "populating"
    /\ \E check_raises, csv_read \in BOOLEAN : \E text_ok, image_ok \in SUBSET CsvRows :
          IF embeddings_exist(check_raises)
          THEN /\ csv_pc' = "ready"
               /\ UNCHANGED <<text_col, image_col>>
          ELSE IF ~csv_read
          THEN /\ csv_pc' = "crashed"
               /\ UNCHANGED <<text_col, image_col>>
          ELSE /\ text_col' = AddEmbeddings(text_col, text_ok)
               /\ image_col' = AddEmbeddings(image_col, image_ok)
               /\ csv_pc' = "ready"
    /\ UNCHANGED startups
    /\ UNCHANGED not_csv_vars

\* the service stops
Shutdown ==
    /\ csv_pc = "ready"
    /\ csv_pc' = "stopped"
    /\ UNCHANGED <<text_col, image_col, startups>>
    /\ UNCHANGED not_csv_vars

CsvNext == Startup \/ MilvusFromCsv \/ Shutdown

SpecCsv == CsvInit /\ [][CsvNext]_vars

----------------------------------------------------------------------------
(* Claims on retrieve *)

TextTasks == {i \in 1..Len(tasks) : tasks[i].coll = "text"}
ImageTasks == {i \in 1..Len(tasks) : tasks[i].coll = "image"}

\* the size of the query list that is searched
Searched == IF query = <<>> THEN 1 ELSE Len(query)

\* C5: retrieve goes on to fusion only when every search it dispatched has
\* returned; once a search has failed the call never returns a result, also
\* not one built from the searches that succeeded.
C5_NoFusionUnlessAllSearchesSucceeded ==
    /\ ret_pc = "returned" => \A i \in 1..Len(tasks) : tasks[i].status = "done"
    /\ (\E i \in 1..Len(tasks) : tasks[i].status = "failed") =>
          /\ ret_pc \in {"searching", "raised"}
          /\ all_results = <<>>
          /\ result = NoResult
    /\ ret_pc = "raised" => \E i \in 1..Len(tasks) : tasks[i].status = "failed"

\* the call has raised although another search returned candidates
C5_Witness ==
    /\ ret_pc = "raised"
    /\ \E i, j \in 1..Len(tasks) :
          /\ tasks[i].status = "failed"
          /\ tasks[j].status = "done"
          /\ tasks[j].hits # <<>>

\* C6: with an empty query list, in either mode, exactly one text search is
\* dispatched and its query is the placeholder; no call dispatches no text
\* search.
C6_EmptyQuerySearchesPlaceholder ==
    ret_pc # "call" =>
        /\ TextTasks # {}
        /\ query = <<>> =>
              /\ Cardinality(TextTasks) = 1
              /\ \A i \in TextTasks : tasks[i].q = Placeholder

C6_Witness ==
    /\ ret_pc = "returned"
    /\ query = <<>>
    /\ ~image_bool
    /\ Cardinality(TextTasks) = 1

\* C7: in image mode with n queries searched, retrieve launches n searches on
\* the text collection, each asking for k candidates, and one search on the
\* image collection asking for k * n candidates.
C7_ImageModeRequests ==
    ret_pc # "call" /\ image_bool =>
        /\ Cardinality(TextTasks) = Searched
        /\ \A i \in TextTasks : tasks[i].k = k
        /\ Cardinality(ImageTasks) = 1
        /\ \A i \in ImageTasks : tasks[i].k = k * Searched

\* C8: in text-only mode with n queries searched, retrieve launches n searches
\* on the text collection and none on the image collection, each asking for
\* k * n candidates.
C8_TextModeRequests ==
    ret_pc # "call" /\ ~image_bool =>
        /\ Cardinality(TextTasks) = Searched
        /\ ImageTasks = {}
        /\ \A i \in TextTasks : tasks[i].k = k * Searched

\* C9: every item returned is one of the first k entries of the deduplicated
\* fused sequence and has a score above sim_threshold; an entry whose score is
\* sim_threshold, or that comes after the k-th entry, is not returned; the
\* result has at most k items.
C9_TopKAboveThreshold ==
    ret_pc = "returned" =>
        /\ Len(result.ids) <= k
        /\ \A j \in 1..Len(result.ids) :
              /\ result.sims[j] > sim_threshold
              /\ \E p \in 1..Min(k, Len(all_results)) :
                    /\ Catalog[all_results[p].doc].pk = result.ids[j]
                    /\ all_results[p].score = result.sims[j]
        /\ \A p \in 1..Len(all_results) :
              all_results[p].score = sim_threshold \/ p > k =>
                 \A j \in 1..Len(result.ids) :
                    result.ids[j] # Catalog[all_results[p].doc].pk

\* of the first k entries the one at the threshold is left out, the other is
\* returned
C9_Witness ==
    /\ ret_pc = "returned"
    /\ k = 2
    /\ Len(all_results) = 2
    /\ all_results[1].score = sim_threshold
    /\ all_results[2].score > sim_threshold
    /\ result.ids = <<Catalog[all_results[2].doc].pk>>

\* C10: in both modes the similarities returned are in descending order.
C10_SimilaritiesDescending ==
    ret_pc = "returned" =>
        \A i, j \in 1..Len(result.sims) : i < j => result.sims[i] >= result.sims[j]

\* text-only mode: the interleaving put the lower score first, and both items
\* pass the threshold and the category filter
C10_Witness ==
    /\ ret_pc = "returned"
    /\ ~image_bool
    /\ Len(all_results) = 2
    /\ all_results[1].score < all_results[2].score
    /\ Len(result.sims) = 2

\* the candidates the searches returned, in the order of the searches
Returned == Flatten([i \in 1..Len(tasks) |-> tasks[i].hits])

\* C11: the id list returned never holds the same record id twice; when every
\* candidate of the searches has the same record id, and its first occurrence
\* in the fused order is above the threshold (and, in text-only mode, passes
\* the category filter), the result has exactly one entry, for that id.
C11_NoDuplicateIds ==
    ret_pc = "returned" =>
        /\ \A i, j \in 1..Len(result.ids) : i # j => result.ids[i] # result.ids[j]
        /\ \A d \in Docs :
              LET first == Fuse([i \in 1..Len(tasks) |-> tasks[i].hits], image_bool)[1]
                  pool == Returned
              IN  /\ pool # <<>>
                  /\ \A p \in 1..Len(pool) : pool[p].doc = d
                  /\ Catalog[d].pk # 0
                  /\ first.score > sim_threshold
                  /\ \/ image_bool
                     \/ /\ categories # <<>>
                        /\ MatchFound(categories, ParseCategories(Row(first).text))
                  => result.ids = <<Catalog[d].pk>>

\* two searches returned the same record, and it is returned once
C11_Witness ==
    /\ ret_pc = "returned"
    /\ ~image_bool
    /\ Len(tasks) = 2
    /\ Len(Returned) = 2
    /\ Returned[1].doc = Returned[2].doc
    /\ tasks[1].hits # <<>>
    /\ tasks[2].hits # <<>>
    /\ Len(result.ids) = 1

\* C12: in text-only mode with an empty category list retrieve returns five
\* empty lists, whatever candidates the searches returned.
C12_NoCategoriesNoResults ==
    ret_pc = "returned" /\ ~image_bool /\ categories = <<>> =>
        /\ result.texts = <<>>
        /\ result.ids = <<>>
        /\ result.sims = <<>>
        /\ result.names = <<>>
        /\ result.images = <<>>

\* a candidate among the first k is above the threshold, and nothing is returned
C12_Witness ==
    /\ ret_pc = "returned"
    /\ ~image_bool
    /\ categories = <<>>
    /\ all_results # <<>>
    /\ all_results[1].score > sim_threshold
    /\ result.ids = <<>>

\* a text payload that is not "name | description | category,subcategory":
\* not three segments, or a last segment that does not give two categories
MalformedPayload(text) ==
    \/ Len(Split(text, <<"|">>)) # 3
    \/ Len(ParseCategories(text)) # 2

\* the texts retrieve builds for the records of the catalogue, and which of
\* them are malformed
CatalogTexts == {Row([doc |-> d, score |-> 0]).text : d \in 1..Len(Catalog)}
Malformed == {text \in CatalogTexts : MalformedPayload(text)}

\* C13: image mode skips the category stage: the call returns what a call on
\* the same search results with any other category list returns, and a
\* candidate among the first k, above the threshold, whose category text
\* cannot be parsed is returned.
C13_ImageModeIgnoresCategories ==
    ret_pc = "returned" /\ image_bool =>
        /\ \A c \in CategoryLists : result = Finish(all_results, k, TRUE, c)
        /\ \A p \in 1..Min(k, Len(all_results)) :
              /\ Row(all_results[p]).text \in Malformed
              /\ all_results[p].score > sim_threshold
              => \E j \in 1..Len(result.ids) :
                    /\ result.ids[j] = Catalog[all_results[p].doc].pk
                    /\ result.texts[j] = Row(all_results[p]).text

\* an image call with a category list that matches no candidate returns a
\* candidate without categories
C13_Witness ==
    /\ ret_pc = "returned"
    /\ image_bool
    /\ categories = << <<"b", "a", "g">> >>
    /\ result.ids = <<Catalog[5].pk>>
    /\ ParseCategories(result.texts[1]) = <<>>

\* a occurs in b as a contiguous part
Contains(a, b) ==
    \E off \in 0..(Len(b) - Len(a)) : \A j \in 1..Len(a) : b[off + j] = a[j]

\* some term of the caller, lower-cased and trimmed, is a part of, or holds, one
\* of the tokens parsed from the text
ParsedTokens == [text \in CatalogTexts |-> ParseCategories(text)]

TermMatches(text) ==
    \E u \in 1..Len(categories) :
        \E t \in 1..Len(ParsedTokens[text]) :
            LET term == Strip(Lower(categories[u]))
                token == ParsedTokens[text][t]
            IN  Contains(term, token) \/ Contains(token, term)

\* C14: in text-only mode with a non-empty category list, a candidate that
\* survived top-k and threshold is returned if and only if some term of the
\* caller (lower-cased, trimmed) is a substring of, or contains, one of the
\* candidate's parsed tokens; the filter keeps the order of the survivors.
C14_CategoryFilter ==
    ret_pc = "returned" /\ ~image_bool /\ categories # <<>> =>
        LET ranked == Ranked(all_results, k)
        IN  /\ \A i \in 1..Len(ranked) :
                  (\E j \in 1..Len(result.ids) : result.ids[j] = ranked[i].id)
                      <=> TermMatches(ranked[i].text)
            /\ \A j \in 1..Len(result.ids) :
                  \E i \in 1..Len(ranked) :
                      /\ ranked[i].id = result.ids[j]
                      /\ ranked[i].score = result.sims[j]
                      /\ ranked[i].text = result.texts[j]
            /\ \A j1, j2 \in 1..Len(result.ids) : j1 < j2 =>
                  \E i1, i2 \in 1..Len(ranked) :
                      /\ i1 < i2
                      /\ ranked[i1].id = result.ids[j1]
                      /\ ranked[i2].id = result.ids[j2]

\* of two survivors the one whose token is held by a term is returned, the one
\* without tokens is not
C14_Witness ==
    /\ ret_pc = "returned"
    /\ ~image_bool
    /\ Len(categories) = 2
    /\ Len(Ranked(all_results, k)) = 2
    /\ Ranked(all_results, k)[1].id = Catalog[5].pk
    /\ result.ids = <<Catalog[2].pk>>

\* C15: a candidate whose text payload is malformed (no "|" separator, or a
\* last segment that is not a category pair) counts as having no categories:
\* text-only mode returns it for no category list.
C15_MalformedPayloadExcluded ==
    ret_pc = "returned" /\ ~image_bool =>
        \A j \in 1..Len(result.texts) : result.texts[j] \notin Malformed

\* the per-query lists, each sorted by descending score
SortedLists == [i \in 1..Len(tasks) |-> SortDesc(tasks[i].hits)]

\* the place of the j-th candidate of list i in a round-robin: after the
\* candidates of the earlier rounds and those of the earlier lists in round j
RoundPos(lists, i, j) ==
    Cardinality({p \in (1..Len(lists)) \X (1..PoolSize(tasks)) :
                    /\ p[2] <= Len(lists[p[1]])
                    /\ p[2] < j \/ (p[2] = j /\ p[1] <= i)})

\* C23: in text-only mode the fused sequence is the round-robin interleave of
\* the per-query lists, each sorted by descending score: every candidate of
\* every list once, the j-th candidates before the (j+1)-th, within a round in
\* query order, exhausted lists skipped.
C23_RoundRobinInterleave ==
    ret_pc = "returned" /\ ~image_bool =>
        LET fused == Fuse([i \in 1..Len(tasks) |-> tasks[i].hits], image_bool)
        IN  /\ Len(fused) = PoolSize(tasks)
            /\ \A i \in 1..Len(tasks) :
                  /\ \A j \in 1..Len(SortedLists[i]) :
                        fused[RoundPos(SortedLists, i, j)] = SortedLists[i][j]
                  /\ \A j1, j2 \in 1..Len(SortedLists[i]) : j1 < j2 =>
                        SortedLists[i][j1].score >= SortedLists[i][j2].score

\* lists of two and one candidates, the first returned out of order
C23_Witness ==
    /\ ret_pc = "returned"
    /\ ~image_bool
    /\ Len(tasks) = 2
    /\ Len(tasks[1].hits) = 2
    /\ Len(tasks[2].hits) = 1
    /\ tasks[1].hits[1].score < tasks[1].hits[2].score
    /\ Len(all_results) = 3

\* the fused sequence of the call, before deduplication
Fused == Fuse([i \in 1..Len(tasks) |-> tasks[i].hits], image_bool)

\* the places of Fused that hold the first occurrence of their record id
FirstOccurrences(f) ==
    {p \in 1..Len(f) :
        \A q \in 1..(p - 1) : Catalog[f[q].doc].pk # Catalog[f[p].doc].pk}

\* C24: when every record of the fused sequence has an id, deduplication
\* returns exactly the first occurrence of every record id, in fused order; a
\* later occurrence is dropped also when its score is higher.
C24_DedupKeepsFirstOccurrence ==
    ret_pc = "returned" =>
       LET f == Fused
           first == FirstOccurrences(f)
       IN  (\A p \in 1..Len(f) : Catalog[f[p].doc].pk # 0) =>
              /\ Len(all_results) = Cardinality(first)
              /\ \A p \in first :
                    all_results[Cardinality({q \in first : q <= p})] = f[p]

\* text-only mode: the second list holds the record of the first with a higher
\* score, and the lower score is kept
C24_Witness ==
    /\ ret_pc = "returned"
    /\ ~image_bool
    /\ Len(Fused) = 2
    /\ Fused[1].doc = Fused[2].doc
    /\ Fused[1].score < Fused[2].score
    /\ all_results = <<Fused[1]>>

\* C27: in image mode, once image_embeddings has given None for the query
\* image, the image search has failed and retrieve never returns a result:
\* the call raises, whatever the text searches found.
C27_NoTextOnlyFallback ==
    (image_bool /\ all_embeddings # <<>> /\ all_embeddings[1] = None) =>
       /\ tasks[Len(tasks)].status = "failed"
       /\ ret_pc # "returned"
       /\ result = NoResult

\* the image was not embedded, every text search returned candidates, and
\* retrieve raised
C27_Witness ==
    /\ image_bool
    /\ all_embeddings = <<None>>
    /\ ret_pc = "raised"
    /\ Len(tasks) >= 2
    /\ \A i \in 1..(Len(tasks) - 1) :
          tasks[i].status = "done" /\ tasks[i].hits # <<>>

\* the records the searches returned, and the best score of each
PooledDocs == {Returned[p].doc : p \in 1..Len(Returned)}

BestScore(d) ==
    LET got == {Returned[p].score : p \in {q \in 1..Len(Returned) : Returned[q].doc = d}}
    IN  CHOOSE s \in got : \A t \in got : s >= t

IsReturned(d) == \E i \in 1..Len(result.ids) : result.ids[i] = Catalog[d].pk

\* a record of the pool that is not in the result and should be: its best
\* score is above the threshold and the result has room for it or holds a
\* lower score
WronglyLeftOut(d) ==
    /\ ~IsReturned(d)
    /\ BestScore(d) > sim_threshold
    /\ \/ Len(result.ids) < k
       \/ \E i \in 1..Len(result.sims) : BestScore(d) > result.sims[i]

\* every returned entry is a record of the pool with its best score
ReturnedWithBestScore ==
    \A i \in 1..Len(result.ids) :
       \E d \in PooledDocs :
          /\ Catalog[d].pk = result.ids[i]
          /\ result.sims[i] = BestScore(d)

\* C28, as stated: in image mode every returned record carries the highest
\* score it got in any search, and no record of the pool is left out whose
\* best score is above the threshold and above the lowest returned score (or
\* above the threshold when fewer than k are returned).
C28_ImageTopKOfPool ==
    ret_pc = "returned" /\ image_bool =>
       /\ ReturnedWithBestScore
       /\ \A d \in PooledDocs : ~WronglyLeftOut(d)

\* C28, amended: the same for the records of the pool that carry an id; a
\* candidate without an id is never returned, whatever its score.
C28_ImageTopKOfPoolWithId ==
    ret_pc = "returned" /\ image_bool =>
       /\ ReturnedWithBestScore
       /\ \A d \in PooledDocs : Catalog[d].pk # 0 => ~WronglyLeftOut(d)
       /\ \A d \in PooledDocs : Catalog[d].pk = 0 => ~IsReturned(d)

\* image mode, k = 1: two searches returned the same record with different
\* scores, and it is returned once with the higher of the two
C28_Witness ==
    /\ ret_pc = "returned"
    /\ image_bool
    /\ k = 1
    /\ Len(Returned) = 2
    /\ Returned[1].doc = Returned[2].doc
    /\ Returned[1].score < Returned[2].score
    /\ Catalog[Returned[1].doc].pk # 0
    /\ result.ids = <<Catalog[Returned[1].doc].pk>>
    /\ result.sims = <<Returned[2].score>>

\* image mode, k = 1: of two records above the threshold the better one is
\* returned and the other is left out
C28_WitnessLeftOut ==
    /\ ret_pc = "returned"
    /\ image_bool
    /\ k = 1
    /\ Len(Returned) = 2
    /\ Catalog[Returned[1].doc].pk # 0
    /\ Catalog[Returned[2].doc].pk # 0
    /\ Returned[1].doc # Returned[2].doc
    /\ sim_threshold < Returned[1].score
    /\ Returned[1].score < Returned[2].score
    /\ result.ids = <<Catalog[Returned[2].doc].pk>>

\* a term of the caller that is not blank, lower-cased and trimmed, is a part
\* of, or holds, one of the tokens parsed from the text
NonBlankTermMatches(text) ==
    \E u \in 1..Len(categories) :
        \E t \in 1..Len(ParsedTokens[text]) :
            LET term == Strip(Lower(categories[u]))
                token == ParsedTokens[text][t]
            IN  /\ term # <<>>
                /\ Contains(term, token) \/ Contains(token, term)

\* C29: in text-only mode a blank term of the caller matches nothing: every
\* returned candidate has a token matched by a term that is not blank, so a
\* list of blank terms only returns no items.
C29_BlankTermsNeverMatch ==
    ret_pc = "returned" /\ ~image_bool =>
       /\ \A i \in 1..Len(result.texts) : NonBlankTermMatches(result.texts[i])
       /\ (\A u \in 1..Len(categories) : Strip(categories[u]) = <<>>) =>
             result.ids = <<>>

\* the score of record d where it first occurs in the fused sequence
FirstScore(f, d) ==
    LET at == {p \in 1..Len(f) : f[p].doc = d}
    IN  f[CHOOSE p \in at : \A q \in at : p <= q].score

\* C30: the five lists returned have one length, and at every index they
\* hold the text, the id, the name and the image of one record of the fused
\* sequence, with the score of its first occurrence there.
C30_FiveListsAligned ==
    ret_pc = "returned" =>
       /\ Len(result.ids) = Len(result.texts)
       /\ Len(result.sims) = Len(result.texts)
       /\ Len(result.names) = Len(result.texts)
       /\ Len(result.images) = Len(result.texts)
       /\ LET f == Fused
          IN  \A i \in 1..Len(result.texts) :
             \E d \in {f[p].doc : p \in 1..Len(f)} :
                /\ result.texts[i] =
                      Catalog[d].page_content \o <<"NL">> \o PRICE \o <<" ">> \o
                      Catalog[d].price
                /\ result.ids[i] = Catalog[d].pk
                /\ result.names[i] = Catalog[d].name
                /\ result.images[i] = Catalog[d].image
                /\ result.sims[i] = FirstScore(f, d)

\* two different records are returned
C30_Witness ==
    /\ ret_pc = "returned"
    /\ Len(result.ids) = 2
    /\ result.ids[1] # result.ids[2]
    /\ result.names[1] # result.names[2]
    /\ result.sims[1] > result.sims[2]

\* text-only mode: a record is returned with the score of its first
\* occurrence, the lower of its two scores
C30_WitnessFirstOccurrence ==
    /\ ret_pc = "returned"
    /\ ~image_bool
    /\ Len(Fused) = 2
    /\ Fused[1].doc = Fused[2].doc
    /\ Fused[1].score < Fused[2].score
    /\ result.sims = <<Fused[1].score>>

\* C22: when a retrieve call in progress is cancelled, no similarity search it
\* dispatched is still running after the call has ended.
C22_CancelStopsSearches ==
    ret_pc = "cancelled" => \A i \in 1..Len(tasks) : tasks[i].status # "running"

----------------------------------------------------------------------------
(* Claims on milvus_from_csv *)

\* C16: milvus_from_csv inserts records only when both collections are empty
\* at the call; when either collection holds data, the call inserts nothing.
C16_InsertsOnlyWhenBothEmpty ==
    [][csv_pc = "populating" /\ (text_col' # text_col \/ image_col' # image_col)
          => text_col = EmptyCollection /\ image_col = EmptyCollection]_vars

\* C17: after any number of startups, also ones where embeddings fail or the
\* count check raises, no row of the CSV is stored more than once in either
\* collection.
C17_NoRowStoredTwice ==
    \A r \in CsvRows : text_col[r] <= 1 /\ image_col[r] <= 1

\* C18: text-only mode, two queries, k = 4, threshold 0.75, category "shoes";
\* the searches return distinct shoes with scores 0.90, 0.80 and 0.85, 0.70.
\* The fused order before deduplication and threshold is 0.90, 0.85, 0.80,
\* 0.70, and retrieve returns exactly the candidates scored 0.90, 0.85, 0.80,
\* in that order.
C18_ScenarioA ==
    /\ ret_pc = "returned"
    /\ k = 4
    /\ sim_threshold = 75
    /\ [i \in 1..Len(tasks) |-> tasks[i].hits] = ScenarioLists
    /\ categories = << <<"s", "h", "o", "e", "s">> >>
    => LET fused == Fuse([i \in 1..Len(tasks) |-> tasks[i].hits], image_bool)
       IN  /\ [i \in 1..Len(fused) |-> fused[i].score] = <<90, 85, 80, 70>>
           /\ result.sims = <<90, 85, 80>>
           /\ result.ids = <<2, 7, 6>>
           /\ result.names = <<"boot", "clog", "loafer">>

\* the call of the scenario has returned
C18_Witness ==
    /\ ret_pc = "returned"
    /\ ~image_bool
    /\ k = 4
    /\ [i \in 1..Len(tasks) |-> tasks[i].hits] = ScenarioLists
    /\ categories = << <<"s", "h", "o", "e", "s">> >>
    /\ Len(result.ids) = 3

\* C19: for the same search results, k, mode and category list, a Retriever
\* with a higher sim_threshold never returns more items: what it returns is
\* among what the lower threshold returns.
C19_ThresholdMonotone ==
    ret_pc = "returned" =>
        LET ids == [t \in Thresholds |->
                       FinishAt(all_results, k, image_bool, categories, t).ids]
        IN  /\ result.ids = ids[sim_threshold]
            /\ \A lo, hi \in Thresholds : lo < hi =>
                  /\ Len(ids[hi]) <= Len(ids[lo])
                  /\ \A j \in 1..Len(ids[hi]) :
                        \E i \in 1..Len(ids[lo]) : ids[lo][i] = ids[hi][j]

\* the configured threshold returns an item, a higher one none, a lower one more
C19_Witness ==
    /\ ret_pc = "returned"
    /\ Len(result.ids) = 1
    /\ FinishAt(all_results, k, image_bool, categories, 90).ids = <<>>
    /\ Len(FinishAt(all_results, k, image_bool, categories, 70).ids) = 2

\* C20: deduplication is idempotent: applied to the sequence it produced, it
\* returns that sequence unchanged.
C20_DedupIdempotent ==
    ret_pc = "returned" => Deduplicate(all_results) = all_results

\* deduplication dropped a candidate and kept another
C20_Witness ==
    /\ ret_pc = "returned"
    /\ all_results # <<>>
    /\ Len(all_results) < Len(Returned)
    /\ Deduplicate(all_results) = all_results

----------------------------------------------------------------------------
(* The chain server: RetrieverAgent.invoke as the retriever node of the     *)
(* graph, followed by the nodes that lead to the reply of /query/stream and *)
(* /query/timing                                                            *)

\* chain_server/src/retriever.py lines 123, 126, 136
ProductsFound == "These products are available in the catalog: ..."
NoProducts == "Unfortunately there are no products closely matching the user's query."
FriendlyError == "I encountered an error while searching for products. Please try again."

\* config.unsafe_message
UnsafeMessage == "unsafe message"

\* full_response of the chatter node: what the language model streams
LlmResponses == {"answer one", "answer two"}

\* what the POST of lines 93-114 comes to: a reply with products, a reply
\* without, no connection, an error status (after the retries for the statuses
\* of status_forcelist), a body that is not JSON, a JSON body without "texts"
ReplyKinds ==
    {"products", "no_products", "connection_error", "error_status", "not_json",
     "no_texts_key"}

FailureKinds == ReplyKinds \ {"products", "no_products"}

\* the exception lines 93-120 raise for a failure
RetrievalException(r) ==
    CASE r = "connection_error" ->
             [cls |-> "ConnectionError", text |-> "Connection refused"]
      [] r = "error_status" ->
             [cls |-> "HTTPError", text |-> "500 Server Error"]
      [] r = "not_json" ->
             [cls |-> "JSONDecodeError", text |-> "Expecting value: line 1 column 1"]
      [] r = "no_texts_key" ->
             [cls |-> "KeyError", text |-> "'texts'"]

\* except requests.exceptions.RequestException (line 133).  The JSONDecodeError
\* of response.json() is a RequestException from requests 2.27 on and a plain
\* ValueError before: json_is_request_exception
Caught(e, json_is_request_exception) ==
    \/ e.cls \in {"ConnectionError", "HTTPError"}
    \/ e.cls = "JSONDecodeError" /\ json_is_request_exception

\* the stream writer reaches the user on /query/stream only
Emit(chunks) == IF endpoint = "stream" THEN delivered \o chunks ELSE delivered

Chunk(type, payload) == [type |-> type, payload |-> payload]

\* a request the planner routes to the retriever node
ChainInit ==
    /\ TxtIdle
    /\ ImgIdle
    /\ RetIdle
    /\ CsvIdle
    /\ endpoint \in {"stream", "timing"}
    /\ guardrails \in BOOLEAN
    /\ reply = "none"
    /\ state_response = ""
    /\ chain_exc = None
    /\ delivered = <<>>
    /\ chain_pc = "retriever_node"

\* RetrieverAgent.invoke, lines 76-142
RetrieverInvoke ==
    /\ chain_pc = "retriever_node"
    /\ \E r \in ReplyKinds : \E json_is_request_exception \in BOOLEAN :
          /\ reply' = r
          /\ IF r = "products"
             THEN /\ state_response' = ProductsFound
                  /\ chain_pc' = "check_rail_node"
                  /\ UNCHANGED chain_exc
             ELSE IF r = "no_products"
             THEN /\ state_response' = NoProducts
                  /\ chain_pc' = "check_rail_node"
                  /\ UNCHANGED chain_exc
             ELSE IF Caught(RetrievalException(r), json_is_request_exception)
             THEN /\ state_response' = FriendlyError
                  /\ chain_pc' = "check_rail_node"
                  /\ UNCHANGED chain_exc
             ELSE /\ chain_exc' = RetrievalException(r)
                  /\ chain_pc' = "raised"
                  /\ UNCHANGED state_response
    /\ UNCHANGED <<endpoint, guardrails, delivered>>
    /\ UNCHANGED not_chain_vars

\* graph.py: check_rail_node with decide_if_input_safe, and unsafe_output
CheckRailNode ==
    /\ chain_pc = "check_rail_node"
    /\ \E is_safe \in (IF guardrails THEN BOOLEAN ELSE {TRUE}) :
          IF is_safe
          THEN /\ chain_pc' = "chatter_node"
               /\ UNCHANGED <<state_response, delivered>>
          ELSE /\ delivered' = Emit(<<Chunk("content", UnsafeMessage)>>)
               /\ state_response' = UnsafeMessage
               /\ chain_pc' = "end"
    /\ UNCHANGED <<endpoint, guardrails, reply, chain_exc>>
    /\ UNCHANGED not_chain_vars

\* ChatterAgent.invoke: the images chunk, then the answer of the language model
ChatterInvoke ==
    /\ chain_pc = "chatter_node"
    /\ \E full_response \in LlmResponses :
          /\ delivered' = Emit(<<Chunk("images", "retrieved"),
                                 Chunk("content", full_response)>>)
          /\ state_response' = full_response
    /\ chain_pc' = "rails_output_node"
    /\ UNCHANGED <<endpoint, guardrails, reply, chain_exc>>
    /\ UNCHANGED not_chain_vars

\* graph.py: rails_output_node, check_out_node with decide_if_output_safe, then
\* summarize_node or unsafe_output
OutputRailNode ==
    /\ chain_pc = "rails_output_node"
    /\ \E is_safe \in (IF guardrails THEN BOOLEAN ELSE {TRUE}) :
          IF is_safe
          THEN UNCHANGED <<state_response, delivered>>
          ELSE /\ delivered' = Emit(<<Chunk("content", UnsafeMessage)>>)
               /\ state_response' = UnsafeMessage
    /\ chain_pc' = "end"
    /\ UNCHANGED <<endpoint, guardrails, reply, chain_exc>>
    /\ UNCHANGED not_chain_vars

\* main.py lines 127-141 and 150-178: the end of the reply
Respond ==
    /\ chain_pc \in {"end", "raised"}
    /\ delivered' =
          IF endpoint = "stream"
          THEN IF chain_pc = "end"
               THEN Append(delivered, Chunk("done", "[DONE]"))
               ELSE Append(delivered, Chunk("error", chain_exc.text))
          ELSE IF chain_pc = "end"
               THEN <<Chunk("response", state_response)>>
               ELSE <<Chunk("http_500", chain_exc.text)>>
    /\ chain_pc' = "replied"
    /\ UNCHANGED <<endpoint, guardrails, reply, state_response, chain_exc>>
    /\ UNCHANGED not_chain_vars

ChainNext == RetrieverInvoke \/ CheckRailNode \/ ChatterInvoke \/ OutputRailNode \/ Respond

SpecChain == ChainInit /\ [][ChainNext]_vars

----------------------------------------------------------------------------
(* Claims on the chain server *)

\* C21: when the retrieval of RetrieverAgent.invoke has failed (no connection,
\* error status, malformed reply), nothing delivered to the user holds the
\* text of the internal exception, on /query/stream and on /query/timing.
C21_NoInternalErrorText ==
    reply \in FailureKinds =>
        \A i \in 1..Len(delivered) :
            delivered[i].payload # RetrievalException(reply).text

====
